---- MODULE Spec2Model ----
\* A model of src/app.py, the "Assistant de Correction Intelligent": a Streamlit
\* script that extracts the text of a pupil's paper, asks a generative model to
\* grade it, parses the reply with four regular expressions and renders a
\* Word report.
\*
\* Text is modelled character by character: a Python str is a sequence of
\* one-character strings, so that substring tests, regular expressions, strip()
\* and f-string concatenation are computed the way the code computes them.
EXTENDS Integers, Sequences, FiniteSets

VARIABLES
    apiKey,         \* os.getenv("GEMINI_API_KEY") is set (line 29)
    pc,             \* position of the script run
    form,           \* the form controls of lines 168-196 are rendered
    enseignant,     \* st.text_input("Enseignant", ...) (line 173)
    eleve,          \* st.text_input("Nom de l'élève") (line 174)
    matiere,        \* st.text_input("Matière") (line 175)
    niveau,         \* st.selectbox("Niveau", ...) (line 176)
    style,          \* st.radio("Style", ...) (line 177)
    type_doc,       \* st.radio("Type copie élève", ...) (line 187)
    fichier_ref,    \* st.file_uploader("Corrigé ...") (line 184)
    fichier_eleve,  \* st.file_uploader of the pupil's paper (lines 189-194)
    texte_ref,      \* line 200
    texte_eleve,    \* lines 202-207
    prompt,         \* the prompt handed to model.generate_content (line 106)
    res,            \* response.text (line 107)
    exc,            \* the exception caught at line 122, if any
    commentaire,    \* line 211
    axes,           \* line 211
    points_forts,   \* line 211
    note,           \* line 211
    docx_file,      \* line 236
    screen,         \* what the run has displayed, in order
    calls           \* how often the run has called each stage

vars == <<apiKey, pc, form, enseignant, eleve, matiere, niveau, style, type_doc,
          fichier_ref, fichier_eleve, texte_ref, texte_eleve, prompt, res, exc,
          commentaire, axes, points_forts, note, docx_file, screen, calls>>


\* ----------------------------------------------------------------------
\* String literals of src/app.py, as character sequences
\* ----------------------------------------------------------------------

Commentaire_pedagogique ==
    <<"C", "o", "m", "m", "e", "n", "t", "a", "i", "r", "e", " ", "p", "é", "d", "a",
      "g", "o", "g", "i", "q", "u", "e">>

Axes_d_amelioration ==
    <<"A", "x", "e", "s", " ", "d", "'", "a", "m", "é", "l", "i", "o", "r", "a", "t",
      "i", "o", "n">>

Points_forts ==
    <<"P", "o", "i", "n", "t", "s", " ", "f", "o", "r", "t", "s">>

Note_indicative ==
    <<"N", "o", "t", "e", " ", "i", "n", "d", "i", "c", "a", "t", "i", "v", "e">>

Non_genere ==
    <<"N", "o", "n", " ", "g", "é", "n", "é", "r", "é">>

Note_par_defaut ==
    <<"1", "0">>

Note_erreur ==
    <<"0", "0">>

Erreur_IA ==
    <<"E", "r", "r", "e", "u", "r", " ", "I", "A", " ", ":", " ">>

Encourageante ==
    <<"E", "n", "c", "o", "u", "r", "a", "g", "e", "a", "n", "t", "e">>

Stricte ==
    <<"S", "t", "r", "i", "c", "t", "e">>

Standard ==
    <<"S", "t", "a", "n", "d", "a", "r", "d">>

Sois_bienveillant ==
    <<"S", "o", "i", "s", " ", "t", "r", "è", "s", " ", "b", "i", "e", "n", "v", "e",
      "i", "l", "l", "a", "n", "t", " ", "e", "t", " ", "v", "a", "l", "o", "r", "i",
      "s", "e", " ", "l", "e", "s", " ", "e", "f", "f", "o", "r", "t", "s", ".">>

Sois_rigoureux ==
    <<"S", "o", "i", "s", " ", "r", "i", "g", "o", "u", "r", "e", "u", "x", " ", "e",
      "t", " ", "e", "x", "i", "g", "e", "a", "n", "t", ".">>

Sois_neutre ==
    <<"S", "o", "i", "s", " ", "n", "e", "u", "t", "r", "e", " ", "e", "t", " ", "o",
      "b", "j", "e", "c", "t", "i", "f", ".">>

Prompt_niveau ==
    <<"\n", "T", "u", " ", "e", "s", " ", "u", "n", " ", "e", "x", "p", "e", "r", "t",
      " ", "p", "é", "d", "a", "g", "o", "g", "i", "q", "u", "e", " ", "n", "i", "v",
      "e", "a", "u", " ">>

Prompt_matiere ==
    <<".", "\n", "M", "a", "t", "i", "è", "r", "e", " ", ":", " ">>

Prompt_style ==
    <<"\n", "S", "t", "y", "l", "e", " ", ":", " ">>

Prompt_corrige ==
    <<"\n", "\n", "C", "O", "R", "R", "I", "G", "É", " ", ":", "\n">>

Prompt_copie ==
    <<"\n", "\n", "C", "O", "P", "I", "E", " ", "É", "L", "È", "V", "E", " ", ":", "\n">>

Prompt_format ==
    <<"\n", "\n", "R", "é", "p", "o", "n", "d", " ", "S", "T", "R", "I", "C", "T", "E",
      "M", "E", "N", "T", " ", "s", "o", "u", "s", " ", "c", "e", " ", "f", "o", "r",
      "m", "a", "t", " ", ":", "\n", "\n", "C", "o", "m", "m", "e", "n", "t", "a", "i",
      "r", "e", " ", "p", "é", "d", "a", "g", "o", "g", "i", "q", "u", "e", " ", ":",
      "\n", ".", ".", ".", "\n", "\n", "A", "x", "e", "s", " ", "d", "'", "a", "m", "é",
      "l", "i", "o", "r", "a", "t", "i", "o", "n", " ", ":", "\n", ".", ".", ".", "\n",
      "\n", "P", "o", "i", "n", "t", "s", " ", "f", "o", "r", "t", "s", " ", ":", "\n",
      ".", ".", ".", "\n", "\n", "N", "o", "t", "e", " ", "i", "n", "d", "i", "c", "a",
      "t", "i", "v", "e", " ", ":", "\n", ".", ".", ".", "/", "2", "0", "\n">>

Primaire ==
    <<"P", "r", "i", "m", "a", "i", "r", "e">>

Secondaire ==
    <<"S", "e", "c", "o", "n", "d", "a", "i", "r", "e">>

Universitaire ==
    <<"U", "n", "i", "v", "e", "r", "s", "i", "t", "a", "i", "r", "e">>

M_Techno_Djieh ==
    <<"M", ".", " ", "T", "e", "c", "h", "n", "o", " ", "D", "j", "i", "e", "h">>

Sur_20 ==
    <<"/", "2", "0">>

Correction_ ==
    <<"C", "o", "r", "r", "e", "c", "t", "i", "o", "n", "_">>

Point_docx ==
    <<".", "d", "o", "c", "x">>

Entete ==
    <<"R", "E", "P", "U", "B", "L", "I", "Q", "U", "E", " ", "D", "E", " ", "C", "O",
      "T", "E", " ", "D", "'", "I", "V", "O", "I", "R", "E", "\n", "U", "n", "i", "o",
      "n", " ", "-", " ", "D", "i", "s", "c", "i", "p", "l", "i", "n", "e", " ", "-",
      " ", "T", "r", "a", "v", "a", "i", "l">>

Titre_rapport ==
    <<"R", "A", "P", "P", "O", "R", "T", " ", "D", "E", " ", "C", "O", "R", "R", "E",
      "C", "T", "I", "O", "N", " ", "P", "E", "D", "A", "G", "O", "G", "I", "Q", "U",
      "E", " ", "I", "A">>

Label_enseignant ==
    <<"E", "n", "s", "e", "i", "g", "n", "a", "n", "t", " ", ":">>

Label_apprenant ==
    <<"A", "p", "p", "r", "e", "n", "a", "n", "t", " ", ":">>

Label_matiere_niveau ==
    <<"M", "a", "t", "i", "è", "r", "e", " ", "/", " ", "N", "i", "v", "e", "a", "u",
      " ", ":">>

Label_note ==
    <<"N", "o", "t", "e", " ", "i", "n", "d", "i", "c", "a", "t", "i", "v", "e", " ", ":">>

Label_commentaire ==
    <<"C", "o", "m", "m", "e", "n", "t", "a", "i", "r", "e", " ", "p", "é", "d", "a",
      "g", "o", "g", "i", "q", "u", "e", " ", ":">>

Label_axes ==
    <<"A", "x", "e", "s", " ", "d", "'", "a", "m", "é", "l", "i", "o", "r", "a", "t",
      "i", "o", "n", " ", ":">>

Document_genere_le ==
    <<"\n", "D", "o", "c", "u", "m", "e", "n", "t", " ", "g", "é", "n", "é", "r", "é",
      " ", "l", "e", " ", ":", " ">>

Tirets ==
    <<"-", "-", "-", "-", "-", "-", "-", "-", "-", "-", "-", "-", "-", "-", "-", "-",
      "-", "-", "-", "-", "-", "-", "-", "-", "-", "-", "-", "-", "-", "-", "-", "-",
      "-", "-", "-", "-", "-", "-", "-", "-", "-", "-", "-", "-", "-", "-", "-", "-",
      "-", "-", "-", "-", "-", "-", "-", "-", "-", "-", "-", "-">>

Contact ==
    <<"P", "o", "u", "r", " ", "t", "o", "u", "t", " ", "b", "e", "s", "o", "i", "n",
      " ", "e", "n", " ", "i", "n", "t", "e", "l", "l", "i", "g", "e", "n", "c", "e",
      " ", "a", "r", "t", "i", "f", "i", "c", "i", "e", "l", "l", "e", ",", " ", "c",
      "o", "n", "t", "a", "c", "t", "e", "z", " ", "l", "e", " ", "T", "e", "c", "h",
      "n", "o", " ", "D", "j", "i", "e", "h", " ", "a", "u", " ", "+", "2", "2", "5",
      " ", "0", "7", "5", "7", "2", "8", "3", "5", "5", "3", " ", "o", "u", " ", "a",
      "u", " ", "m", "a", "i", "l", " ", ":", " ", "b", "i", "t", "a", "h", "d", "h",
      "i", "e", "h", "d", "@", "g", "m", "a", "i", "l", ".", "c", "o", "m">>


\* ----------------------------------------------------------------------
\* Python str operations
\* ----------------------------------------------------------------------

\* The whitespace characters that occur in the modelled texts: the regular
\* expressions' \s and str.strip() agree on them.
WhiteSpace == {" ", "\n", "\t"}

Digits == {"0", "1", "2", "3", "4", "5", "6", "7", "8", "9"}

IsSpace(c) == c \in WhiteSpace

IsDigit(c) == c \in Digits

Min(S) == CHOOSE x \in S : \A y \in S : x <= y

Max(S) == CHOOSE x \in S : \A y \in S : x >= y

RECURSIVE lstrip(_)
lstrip(s) == IF s # <<>> /\ IsSpace(Head(s)) THEN lstrip(Tail(s)) ELSE s

RECURSIVE rstrip(_)
rstrip(s) ==
    IF s # <<>> /\ IsSpace(s[Len(s)]) THEN rstrip(SubSeq(s, 1, Len(s) - 1)) ELSE s

\* A mutant of strip: only the leading whitespace is removed.
strip_left_only(s) == lstrip(s)

\* str.strip()
strip(s) == rstrip(lstrip(s))

\* s[i:].startswith(lit), i counted from 1
StartsAt(s, lit, i) ==
    /\ i >= 1
    /\ i + Len(lit) - 1 <= Len(s)
    /\ \A k \in 1..Len(lit) : s[i + k - 1] = lit[k]

\* Python's `sub in s`
In(sub, s) == \E i \in 1..(Len(s) + 1) : StartsAt(s, sub, i)

\* sep.join(parts)
RECURSIVE join(_, _)
join(sep, parts) ==
    IF parts = <<>> THEN <<>>
    ELSE IF Len(parts) = 1 THEN parts[1]
    ELSE parts[1] \o sep \o join(sep, Tail(parts))

\* ----------------------------------------------------------------------
\* The regular expressions of lines 110-113
\* ----------------------------------------------------------------------

\* A greedy \s* at position i: the position after the whitespace run.
RECURSIVE SkipSpace(_, _)
SkipSpace(s, i) == IF i <= Len(s) /\ IsSpace(s[i]) THEN SkipSpace(s, i + 1) ELSE i

\* A greedy \d* at position i: the position after the run of digits.
RECURSIVE SkipDigits(_, _)
SkipDigits(s, i) == IF i <= Len(s) /\ IsDigit(s[i]) THEN SkipDigits(s, i + 1) ELSE i

\* re.search's None; a match is the tuple of its groups.
NoMatch == <<>>

\* r"A\s*:\s*(.*?)\n\s*B" with re.DOTALL, tried at position i of s. After A
\* the greedy \s* must take the whole whitespace run, since ":" is no
\* whitespace. The second \s* is greedy and backtracks: the group starts as far
\* right as a match allows. The group (.*?) is lazy: for that start it ends at
\* the first "\n" that is followed by whitespace and then by B.
SectionMatchAt(s, A, B, i) ==
    LET c == SkipSpace(s, i + Len(A))
    IN  IF ~StartsAt(s, A, i) \/ c > Len(s) \/ s[c] # ":" THEN NoMatch
        ELSE LET hi == SkipSpace(s, c + 1)
                 Ends(q) == {e \in q..Len(s) :
                                s[e] = "\n" /\ StartsAt(s, B, SkipSpace(s, e + 1))}
                 Starts == {q \in (c + 1)..hi : Ends(q) # {}}
             IN  IF Starts = {} THEN NoMatch
                 ELSE LET q == Max(Starts)
                      IN  <<SubSeq(s, q, Min(Ends(q)) - 1)>>

\* re.search of that pattern: the match at the leftmost position that has one.
SearchSection(s, A, B) ==
    LET At == {i \in 1..Len(s) : SectionMatchAt(s, A, B, i) # NoMatch}
    IN  IF At = {} THEN NoMatch ELSE SectionMatchAt(s, A, B, Min(At))

\* A mutant of NoteMatchAt: r"Note indicative\s*:\D*(\d+)", which skips any
\* text between the colon and the first digit.
NoteMatchAt_skip_text(s, i) ==
    LET c == SkipSpace(s, i + Len(Note_indicative))
    IN  IF ~StartsAt(s, Note_indicative, i) \/ c > Len(s) \/ s[c] # ":" THEN NoMatch
        ELSE LET Ds == {d \in (c + 1)..Len(s) : IsDigit(s[d])}
             IN  IF Ds = {} THEN NoMatch
                 ELSE <<SubSeq(s, Min(Ds), SkipDigits(s, Min(Ds)) - 1)>>

\* r"Note indicative\s*:\s*(\d+)" tried at position i of s: both \s* take their
\* whole whitespace run (neither ":" nor a digit is whitespace), and \d+ takes
\* the whole run of digits.
NoteMatchAt(s, i) ==
    LET c == SkipSpace(s, i + Len(Note_indicative))
    IN  IF ~StartsAt(s, Note_indicative, i) \/ c > Len(s) \/ s[c] # ":" THEN NoMatch
        ELSE LET d == SkipSpace(s, c + 1)
             IN  IF d > Len(s) \/ ~IsDigit(s[d]) THEN NoMatch
                 ELSE <<SubSeq(s, d, SkipDigits(s, d) - 1)>>

\* line 113
note_search(s) ==
    LET At == {i \in 1..Len(s) : NoteMatchAt(s, i) # NoMatch}
    IN  IF At = {} THEN NoMatch ELSE NoteMatchAt(s, Min(At))

\* line 110
comm_search(s) == SearchSection(s, Commentaire_pedagogique, Axes_d_amelioration)

\* line 111
axes_search(s) == SearchSection(s, Axes_d_amelioration, Points_forts)

\* line 112
pf_search(s) == SearchSection(s, Points_forts, Note_indicative)

\* A mutant of extraire: the four fields are parsed as one pattern, so that a
\* comment that is not found leaves every field at its fallback.
extraire_all_or_nothing(s) ==
    IF comm_search(s) = NoMatch
    THEN <<Non_genere, Non_genere, Non_genere, Note_par_defaut>>
    ELSE <<strip(comm_search(s)[1]),
           IF axes_search(s) # NoMatch THEN strip(axes_search(s)[1]) ELSE Non_genere,
           IF pf_search(s) # NoMatch THEN strip(pf_search(s)[1]) ELSE Non_genere,
           IF note_search(s) # NoMatch THEN note_search(s)[1] ELSE Note_par_defaut>>

\* lines 110-120: the four fields of the reply s, each with its own fallback
extraire(s) ==
    LET comm == comm_search(s)
        ax   == axes_search(s)
        pf   == pf_search(s)
        nt   == note_search(s)
    IN  <<IF comm # NoMatch THEN strip(comm[1]) ELSE Non_genere,
          IF ax # NoMatch THEN strip(ax[1]) ELSE Non_genere,
          IF pf # NoMatch THEN strip(pf[1]) ELSE Non_genere,
          IF nt # NoMatch THEN nt[1] ELSE Note_par_defaut>>

\* ----------------------------------------------------------------------
\* Text extraction (lines 40-66)
\* ----------------------------------------------------------------------

\* An element the script has displayed: the Streamlit call, its fixed text
\* (pictographs left out) and the text computed by the run.
El(kind, label, value) == [kind |-> kind, label |-> label, value |-> value]

\* An uploaded file: whether the library can open it (and the message of the
\* exception it raises if not) and its text parts: the paragraphs of a DOCX,
\* the pages of a PDF, the text the recogniser reads from an image.
Fichier(corrupt, err, parts) ==
    [present |-> TRUE, corrupt |-> corrupt, err |-> err, parts |-> parts]

\* The uploader's None.
NoFile == [present |-> FALSE, corrupt |-> FALSE, err |-> <<>>, parts |-> <<>>]

RECURSIVE concat(_)
concat(parts) == IF parts = <<>> THEN <<>> ELSE parts[1] \o concat(Tail(parts))

NonBlank(p) == strip(p) # <<>>

\* A mutant of lire_docx without its try/except: the exception leaves it.
lire_docx_sans_except(file) ==
    IF file.corrupt
    THEN [raised |-> TRUE, texte |-> <<>>, shown |-> <<>>, err |-> file.err]
    ELSE [raised |-> FALSE, texte |-> join(<<"\n">>, SelectSeq(file.parts, NonBlank)),
          shown |-> <<>>, err |-> <<>>]

\* lines 40-46
lire_docx(file) ==
    IF file.corrupt
    THEN [raised |-> FALSE, texte |-> <<>>,
          shown |-> <<El("error", "Erreur DOCX : ", file.err)>>, err |-> <<>>]
    ELSE [raised |-> FALSE, texte |-> join(<<"\n">>, SelectSeq(file.parts, NonBlank)),
          shown |-> <<>>, err |-> <<>>]

\* lines 48-57
lire_pdf(file) ==
    IF file.corrupt
    THEN [raised |-> FALSE, texte |-> <<>>,
          shown |-> <<El("error", "Erreur PDF : ", file.err)>>, err |-> <<>>]
    ELSE [raised |-> FALSE, texte |-> concat(file.parts), shown |-> <<>>, err |-> <<>>]

\* lines 59-66
lire_image(file) ==
    IF file.corrupt
    THEN [raised |-> FALSE, texte |-> <<>>,
          shown |-> <<El("error", "Erreur Image : ", file.err)>>, err |-> <<>>]
    ELSE [raised |-> FALSE, texte |-> concat(file.parts), shown |-> <<>>, err |-> <<>>]

\* ----------------------------------------------------------------------
\* analyser_avec_gemini (lines 70-123)
\* ----------------------------------------------------------------------

\* A mutant of consigne_style: "Stricte" is tested before "Encourageante".
consigne_style_stricte_d_abord(s) ==
    IF In(Stricte, s) THEN Sois_rigoureux
    ELSE IF In(Encourageante, s) THEN Sois_bienveillant
    ELSE Sois_neutre

\* lines 72-77
consigne_style(s) ==
    IF In(Encourageante, s) THEN Sois_bienveillant
    ELSE IF In(Stricte, s) THEN Sois_rigoureux
    ELSE Sois_neutre

\* lines 79-103: the f-string, with the instruction of lines 72-77 as consigne
prompt_de(t_ref, t_eleve, mat, niv, consigne) ==
    Prompt_niveau \o niv \o Prompt_matiere \o mat \o Prompt_style \o consigne
        \o Prompt_corrige \o t_ref \o Prompt_copie \o t_eleve \o Prompt_format

\* What the external model does with one call: generate_content raises
\* (raises = "generate_content"), reading response.text raises (raises =
\* "text"), or the reply text is returned (raises = "none").
Echec(ou, msg) == [raises |-> ou, text |-> <<>>, msg |-> msg]

Reponse(text) == [raises |-> "none", text |-> text, msg |-> <<>>]

\* A mutant of analyser_avec_gemini without its try/except.
analyser_sans_except(t_ref, t_eleve, mat, niv, sty, gen) ==
    [prompt |-> prompt_de(t_ref, t_eleve, mat, niv, consigne_style(sty)),
     generate_content |-> 1,
     raised |-> gen.raises # "none",
     err |-> gen.msg,
     res |-> gen.text,
     value |-> IF gen.raises # "none" THEN <<<<>>, <<>>, <<>>, <<>>>>
               ELSE extraire(gen.text)]

\* A mutant of analyser_avec_gemini that calls the model again when the
\* first call fails.
analyser_avec_reprise(t_ref, t_eleve, mat, niv, sty, gen) ==
    [prompt |-> prompt_de(t_ref, t_eleve, mat, niv, consigne_style(sty)),
     generate_content |-> IF gen.raises # "none" THEN 2 ELSE 1,
     raised |-> FALSE,
     err |-> <<>>,
     res |-> gen.text,
     value |-> IF gen.raises # "none"
               THEN <<Erreur_IA \o gen.msg, <<>>, <<>>, Note_erreur>>
               ELSE extraire(gen.text)]

\* lines 70-123, given what the model does (gen): the prompt sent, the number
\* of calls of model.generate_content, whether an exception leaves the
\* function, and the four values returned.
analyser_avec_gemini(t_ref, t_eleve, mat, niv, sty, gen) ==
    [prompt |-> prompt_de(t_ref, t_eleve, mat, niv, consigne_style(sty)),
     generate_content |-> 1,
     raised |-> FALSE,
     err |-> <<>>,
     res |-> gen.text,
     value |-> IF gen.raises # "none"
               THEN <<Erreur_IA \o gen.msg, <<>>, <<>>, Note_erreur>>
               ELSE extraire(gen.text)]

\* ----------------------------------------------------------------------
\* creer_fiche_word (lines 127-164)
\* ----------------------------------------------------------------------

\* datetime.date.today(), as str() formats it: the day of the run.
Aujourd_hui == <<"2", "0", "2", "6", "-", "1", "1", "-", "0", "6">>

Bloc(kind, text, alignment, rows) ==
    [kind |-> kind, text |-> text, alignment |-> alignment, rows |-> rows]

\* doc.add_table(rows, cols): a grid of empty cells
add_table(rows, cols) == [i \in 1..rows |-> [j \in 1..cols |-> <<>>]]

\* A mutant of data_rows: a row whose value is empty is left out.
data_rows_sans_vides(infos) ==
    SelectSeq(<<<<Label_enseignant, infos.enseignant>>,
                <<Label_apprenant, infos.eleve>>,
                <<Label_matiere_niveau,
                  infos.matiere \o <<" ", "(">> \o infos.niveau \o <<")">>>>,
                <<Label_note, infos.note>>,
                <<Label_commentaire, infos.commentaire>>,
                <<Label_axes, infos.axes>>>>,
              LAMBDA r : r[2] # <<>>)

\* lines 138-145
data_rows(infos) ==
    <<<<Label_enseignant, infos.enseignant>>,
      <<Label_apprenant, infos.eleve>>,
      <<Label_matiere_niveau,
        infos.matiere \o <<" ", "(">> \o infos.niveau \o <<")">>>>,
      <<Label_note, infos.note>>,
      <<Label_commentaire, infos.commentaire>>,
      <<Label_axes, infos.axes>>>>

\* lines 147-149: the loop, from row i on
RECURSIVE remplir(_, _, _)
remplir(table, rows, i) ==
    IF i > Len(rows) THEN table
    ELSE remplir([table EXCEPT ![i] = [@ EXCEPT ![1] = rows[i][1], ![2] = rows[i][2]]],
                 rows, i + 1)

\* lines 127-164: the document saved to the buffer
creer_fiche_word(infos) ==
    [built |-> TRUE,
     blocks |-> <<Bloc("paragraph", Entete, "CENTER", <<>>),
                  Bloc("heading", Titre_rapport, "", <<>>),
                  Bloc("table", <<>>, "", remplir(add_table(6, 2), data_rows(infos), 1)),
                  Bloc("paragraph", Document_genere_le \o Aujourd_hui, "", <<>>),
                  Bloc("paragraph", Tirets, "", <<>>),
                  Bloc("paragraph", Contact, "CENTER", <<>>)>>]

\* No document yet.
NoDocx == [built |-> FALSE, blocks |-> <<>>]

\* ----------------------------------------------------------------------
\* The inputs of the runs
\* ----------------------------------------------------------------------

\* What the teacher may type or select.
Enseignants == {M_Techno_Djieh, <<>>}

Eleves == {<<>>, <<"A", "w", "a">>}

Matieres == {<<>>, <<"S", "V", "T">>}

\* line 176
Niveaux == {Primaire, Secondaire, Universitaire}

\* line 177
Styles == {Encourageante, Standard, Stricte}

\* line 187
TypesDoc == {"DOCX", "PDF", "Image"}

Illisible == <<"i", "l", "l", "i", "s", "i", "b", "l", "e">>

\* Files a DOCX uploader may hold (lines 184, 190): one that python-docx
\* cannot open, and one with a blank paragraph between two others.
DocxFiles ==
    {Fichier(TRUE, Illisible, <<>>),
     Fichier(FALSE, <<>>, <<<<"a", "b">>, <<" ">>, <<"c">>>>)}

\* Files the PDF uploader may hold (line 192): unreadable, no page, two pages.
PdfFiles ==
    {Fichier(TRUE, Illisible, <<>>),
     Fichier(FALSE, <<>>, <<>>),
     Fichier(FALSE, <<>>, <<<<"a", "b">>, <<"c">>>>)}

\* Files the image uploader may hold (line 194): unreadable, a blank image,
\* an image with text.
ImageFiles ==
    {Fichier(TRUE, Illisible, <<>>),
     Fichier(FALSE, <<>>, <<<<>>>>),
     Fichier(FALSE, <<>>, <<<<"a", "b", "\n">>>>)}

FilesFor(t) == IF t = "DOCX" THEN DocxFiles ELSE IF t = "PDF" THEN PdfFiles ELSE ImageFiles

\* The four section labels, in the order of the prompt (lines 92-102).
Labels == <<Commentaire_pedagogique, Axes_d_amelioration, Points_forts, Note_indicative>>

\* A reply is the format of lines 92-102 with some of its places varied.
\* Places 1-4 are the four labels, 5-7 the texts of the first three sections,
\* 8-10 what separates a section from the next label, 11 the text of the
\* score section. Option 1 of each place is the format asked for.
Places == 1..11

\* How many options a place has besides option 1.
NAlt(p) == IF p <= 4 \/ p = 11 THEN 3 ELSE 2

\* The greatest number of places varied in one reply.
MaxVariations == 2

HeadForm(L, k) ==
    CASE k = 1 -> L \o <<" ", ":", "\n">>
      [] k = 2 -> L \o <<":", " ">>
      [] k = 3 -> L \o <<"\n">>
      [] OTHER -> <<>>

BodyForm(i, k) ==
    LET w == <<<<"a", "b">>, <<"c", "d">>, <<"e", "f">>>>[i]
    IN  CASE k = 1 -> w
          [] k = 2 -> <<>>
          [] OTHER -> <<" ", w[1], "\n", w[2], " ">>

TailForm(k) ==
    CASE k = 1 -> <<"\n", "\n">>
      [] k = 2 -> <<" ">>
      [] OTHER -> <<"\n", " ", " ">>

ScoreForm(k) ==
    CASE k = 1 -> <<"1", "5", "/", "2", "0">>
      [] k = 2 -> <<".", ".", ".", "/", "2", "0">>
      [] k = 3 -> <<>>
      [] OTHER -> <<"a", "b", "\n">> \o Note_indicative \o <<" ", ":", " ", "7">>

\* The reply whose varied places are the domain of v, place p with option
\* v[p] + 1.
Reply(v) ==
    LET o(p) == IF p \in DOMAIN v THEN v[p] + 1 ELSE 1
    IN  HeadForm(Labels[1], o(1)) \o BodyForm(1, o(5)) \o TailForm(o(8))
        \o HeadForm(Labels[2], o(2)) \o BodyForm(2, o(6)) \o TailForm(o(9))
        \o HeadForm(Labels[3], o(3)) \o BodyForm(3, o(7)) \o TailForm(o(10))
        \o HeadForm(Labels[4], o(4)) \o ScoreForm(o(11))

Variations ==
    UNION {{v \in [D -> 1..3] : \A p \in D : v[p] <= NAlt(p)} :
               D \in {E \in SUBSET Places : Cardinality(E) <= MaxVariations}}

Replies == {Reply(v) : v \in Variations}

\* The reply in the format asked for.
ReplyAsAsked == Reply(<<>>)

\* What the model may do with the call of a pipeline run.
Generations ==
    {Echec("generate_content", <<"q", "u", "o", "t", "a">>),
     Echec("text", <<"b", "l", "o", "c", "k", "e", "d">>),
     Reponse(ReplyAsAsked),
     Reponse(<<"B", "i", "e", "n", ".">>)}

\* ----------------------------------------------------------------------
\* The script run (lines 27-36 and 168-246)
\* ----------------------------------------------------------------------

widgets == <<enseignant, eleve, matiere, niveau, style, type_doc, fichier_ref,
             fichier_eleve>>

NoCalls ==
    [lire_docx |-> 0, lire_pdf |-> 0, lire_image |-> 0, generate_content |-> 0,
     creer_fiche_word |-> 0]

\* The locals of a script run before the run has set them.
FreshRun ==
    /\ texte_ref = <<>>
    /\ texte_eleve = <<>>
    /\ prompt = <<>>
    /\ res = <<>>
    /\ exc = <<>>
    /\ commentaire = <<>>
    /\ axes = <<>>
    /\ points_forts = <<>>
    /\ note = <<>>
    /\ docx_file = NoDocx
    /\ calls = NoCalls

\* A new script run starts with its locals unset.
NouveauRun ==
    /\ texte_ref' = <<>>
    /\ texte_eleve' = <<>>
    /\ prompt' = <<>>
    /\ res' = <<>>
    /\ exc' = <<>>
    /\ commentaire' = <<>>
    /\ axes' = <<>>
    /\ points_forts' = <<>>
    /\ note' = <<>>
    /\ docx_file' = NoDocx
    /\ calls' = NoCalls

MsgCle == "Clé API Gemini introuvable. Vérifie ton fichier .env"

MsgChamps == "Remplis tous les champs et ajoute la copie de l'élève."

Init ==
    /\ apiKey \in BOOLEAN
    /\ pc = "start"
    /\ form = FALSE
    /\ enseignant = M_Techno_Djieh
    /\ eleve = <<>>
    /\ matiere = <<>>
    /\ niveau = Primaire
    /\ style = Encourageante
    /\ type_doc = "DOCX"
    /\ fichier_ref = NoFile
    /\ fichier_eleve = NoFile
    /\ screen = <<>>
    /\ FreshRun

\* A mutant of Demarrer: the error is shown but st.stop() is not called.
Demarrer_sans_stop ==
    /\ pc = "start"
    /\ screen' = IF apiKey THEN <<>> ELSE <<El("error", MsgCle, <<>>)>>
    /\ form' = TRUE
    /\ pc' = "idle"
    /\ UNCHANGED <<apiKey, widgets, texte_ref, texte_eleve, prompt, res, exc,
                   commentaire, axes, points_forts, note, docx_file, calls>>

\* lines 27-36, then lines 168-196 with the button not pressed
Demarrer ==
    /\ pc = "start"
    /\ IF apiKey
       THEN /\ form' = TRUE
            /\ pc' = "idle"
            /\ screen' = <<>>
       ELSE /\ form' = FALSE
            /\ pc' = "stopped"
            /\ screen' = <<El("error", MsgCle, <<>>)>>
    /\ UNCHANGED <<apiKey, widgets, texte_ref, texte_eleve, prompt, res, exc,
                   commentaire, axes, points_forts, note, docx_file, calls>>

\* The teacher changes a control: Streamlit runs the script again with the
\* button not pressed, and what the last run displayed and computed is gone.
Rerun ==
    /\ pc = "idle"
    /\ form
    /\ pc' = "idle"
    /\ screen' = <<>>
    /\ NouveauRun
    /\ UNCHANGED <<apiKey, form>>

\* line 173
SaisirEnseignant ==
    /\ Rerun
    /\ \E v \in Enseignants \ {enseignant} : enseignant' = v
    /\ UNCHANGED <<eleve, matiere, niveau, style, type_doc, fichier_ref, fichier_eleve>>

\* line 174
SaisirEleve ==
    /\ Rerun
    /\ \E v \in Eleves \ {eleve} : eleve' = v
    /\ UNCHANGED <<enseignant, matiere, niveau, style, type_doc, fichier_ref,
                   fichier_eleve>>

\* line 175
SaisirMatiere ==
    /\ Rerun
    /\ \E v \in Matieres \ {matiere} : matiere' = v
    /\ UNCHANGED <<enseignant, eleve, niveau, style, type_doc, fichier_ref,
                   fichier_eleve>>

\* line 176
ChoisirNiveau ==
    /\ Rerun
    /\ \E v \in Niveaux \ {niveau} : niveau' = v
    /\ UNCHANGED <<enseignant, eleve, matiere, style, type_doc, fichier_ref,
                   fichier_eleve>>

\* line 177
ChoisirStyle ==
    /\ Rerun
    /\ \E v \in Styles \ {style} : style' = v
    /\ UNCHANGED <<enseignant, eleve, matiere, niveau, type_doc, fichier_ref,
                   fichier_eleve>>

\* lines 187-194: each type has its own uploader, empty when first shown
ChoisirTypeDoc ==
    /\ Rerun
    /\ \E v \in TypesDoc \ {type_doc} : type_doc' = v
    /\ fichier_eleve' = NoFile
    /\ UNCHANGED <<enseignant, eleve, matiere, niveau, style, fichier_ref>>

\* line 184: a reference is uploaded or removed
DeposerCorrige ==
    /\ Rerun
    /\ \E f \in (DocxFiles \cup {NoFile}) \ {fichier_ref} : fichier_ref' = f
    /\ UNCHANGED <<enseignant, eleve, matiere, niveau, style, type_doc, fichier_eleve>>

\* lines 189-194: a paper is uploaded or removed
DeposerCopie ==
    /\ Rerun
    /\ \E f \in (FilesFor(type_doc) \cup {NoFile}) \ {fichier_eleve} : fichier_eleve' = f
    /\ UNCHANGED <<enseignant, eleve, matiere, niveau, style, type_doc, fichier_ref>>

\* An exception leaves the script: Streamlit displays it and the run ends.
Abandon(e) ==
    /\ pc' = "idle"
    /\ screen' = Append(screen, El("exception", "", e))

\* A mutant of Lancer: the gate forgets the subject.
Lancer_sans_matiere ==
    /\ pc = "idle"
    /\ form
    /\ NouveauRun
    /\ IF eleve # <<>> /\ fichier_eleve.present
       THEN /\ pc' = "extract_ref"
            /\ screen' = <<>>
       ELSE /\ pc' = "idle"
            /\ screen' = <<El("error", MsgChamps, <<>>)>>
    /\ UNCHANGED <<apiKey, form, widgets>>

\* lines 196-198 and 245-246: the button is pressed; the script runs again
\* from the top and reaches the gate
Lancer ==
    /\ pc = "idle"
    /\ form
    /\ NouveauRun
    /\ IF eleve # <<>> /\ matiere # <<>> /\ fichier_eleve.present
       THEN /\ pc' = "extract_ref"
            /\ screen' = <<>>
       ELSE /\ pc' = "idle"
            /\ screen' = <<El("error", MsgChamps, <<>>)>>
    /\ UNCHANGED <<apiKey, form, widgets>>

\* line 200
ExtraireRef ==
    /\ pc = "extract_ref"
    /\ IF fichier_ref.present
       THEN LET r == lire_docx(fichier_ref)
            IN  /\ calls' = [calls EXCEPT !.lire_docx = @ + 1]
                /\ texte_ref' = r.texte
                /\ IF r.raised THEN Abandon(r.err)
                   ELSE /\ pc' = "extract_eleve"
                        /\ screen' = screen \o r.shown
       ELSE /\ texte_ref' = <<>>
            /\ pc' = "extract_eleve"
            /\ UNCHANGED <<calls, screen>>
    /\ UNCHANGED <<apiKey, form, widgets, texte_eleve, prompt, res, exc, commentaire,
                   axes, points_forts, note, docx_file>>

\* lines 202-207
ExtraireEleve ==
    /\ pc = "extract_eleve"
    /\ LET r == IF type_doc = "DOCX" THEN lire_docx(fichier_eleve)
                ELSE IF type_doc = "PDF" THEN lire_pdf(fichier_eleve)
                ELSE lire_image(fichier_eleve)
       IN  /\ calls' = IF type_doc = "DOCX" THEN [calls EXCEPT !.lire_docx = @ + 1]
                       ELSE IF type_doc = "PDF" THEN [calls EXCEPT !.lire_pdf = @ + 1]
                       ELSE [calls EXCEPT !.lire_image = @ + 1]
           /\ texte_eleve' = r.texte
           /\ IF r.raised THEN Abandon(r.err)
              ELSE /\ pc' = "analyse"
                   /\ screen' = screen \o r.shown
    /\ UNCHANGED <<apiKey, form, widgets, texte_ref, prompt, res, exc, commentaire,
                   axes, points_forts, note, docx_file>>

\* lines 211-213: the call of analyser_avec_gemini, the model doing gen
AnalyserAvec(gen) ==
    /\ pc = "analyse"
    /\ \E r \in {analyser_avec_gemini(texte_ref, texte_eleve, matiere, niveau, style, gen)} :
           /\ prompt' = r.prompt
           /\ calls' = [calls EXCEPT !.generate_content = @ + r.generate_content]
           /\ res' = r.res
           /\ exc' = IF gen.raises # "none" THEN <<gen.msg>> ELSE <<>>
           /\ commentaire' = r.value[1]
           /\ axes' = r.value[2]
           /\ points_forts' = r.value[3]
           /\ note' = r.value[4]
           /\ IF r.raised THEN Abandon(r.err)
              ELSE /\ pc' = "display"
                   /\ screen' = screen
    /\ UNCHANGED <<apiKey, form, widgets, texte_ref, texte_eleve, docx_file>>

Analyser == \E gen \in Generations : AnalyserAvec(gen)

\* lines 215-224
Afficher ==
    /\ pc = "display"
    /\ screen' = screen \o
           <<El("info", "### Commentaire pédagogique", <<>>),
             El("write", "", commentaire),
             El("warning", "### Axes d'amélioration", <<>>),
             El("write", "", axes),
             El("success", "### Points forts", <<>>),
             El("write", "", points_forts),
             El("metric", "Note indicative", note \o Sur_20)>>
    /\ pc' = "report"
    /\ UNCHANGED <<apiKey, form, widgets, texte_ref, texte_eleve, prompt, res, exc,
                   commentaire, axes, points_forts, note, docx_file, calls>>

\* lines 226-236
Rapport ==
    /\ pc = "report"
    /\ LET infos == [enseignant |-> enseignant, eleve |-> eleve, matiere |-> matiere,
                     niveau |-> niveau, note |-> note, commentaire |-> commentaire,
                     axes |-> axes]
       IN  docx_file' = creer_fiche_word(infos)
    /\ calls' = [calls EXCEPT !.creer_fiche_word = @ + 1]
    /\ pc' = "download"
    /\ UNCHANGED <<apiKey, form, widgets, texte_ref, texte_eleve, prompt, res, exc,
                   commentaire, axes, points_forts, note, screen>>

\* lines 238-243
Telecharger ==
    /\ pc = "download"
    /\ screen' = Append(screen, El("download_button", "Télécharger la fiche DOCX",
                                    Correction_ \o eleve \o Point_docx))
    /\ pc' = "idle"
    /\ UNCHANGED <<apiKey, form, widgets, texte_ref, texte_eleve, prompt, res, exc,
                   commentaire, axes, points_forts, note, docx_file, calls>>

\* The steps of the button handler after the gate.
Pipeline ==
    \/ ExtraireRef
    \/ ExtraireEleve
    \/ Analyser
    \/ Afficher
    \/ Rapport
    \/ Telecharger

Next ==
    \/ Demarrer
    \/ SaisirEnseignant
    \/ SaisirEleve
    \/ SaisirMatiere
    \/ ChoisirNiveau
    \/ ChoisirStyle
    \/ ChoisirTypeDoc
    \/ DeposerCorrige
    \/ DeposerCopie
    \/ Lancer
    \/ Pipeline

Spec == Init /\ [][Next]_vars

\* The handler is one synchronous script run: once past the gate, each of its
\* steps is taken.
FairSpec == Spec /\ WF_vars(Pipeline)

\* ----------------------------------------------------------------------
\* The functions on their own
\* ----------------------------------------------------------------------

\* A run at the call of analyser_avec_gemini, the paper read from an image.
AtAnalyse ==
    /\ apiKey = TRUE
    /\ pc = "analyse"
    /\ form = TRUE
    /\ enseignant = M_Techno_Djieh
    /\ eleve = <<"A", "w", "a">>
    /\ matiere = <<"S", "V", "T">>
    /\ niveau = Primaire
    /\ type_doc = "Image"
    /\ fichier_ref = NoFile
    /\ texte_ref = <<>>
    /\ prompt = <<>>
    /\ res = <<>>
    /\ exc = <<>>
    /\ commentaire = <<>>
    /\ axes = <<>>
    /\ points_forts = <<>>
    /\ note = <<>>
    /\ docx_file = NoDocx
    /\ screen = <<>>
    /\ calls = [NoCalls EXCEPT !.lire_image = 1]

\* The parser of lines 110-120 on every reply of Replies.
InitParse ==
    /\ AtAnalyse
    /\ style = Encourageante
    /\ fichier_eleve = Fichier(FALSE, <<>>, <<<<"a", "b", "\n">>>>)
    /\ texte_eleve = <<"a", "b", "\n">>

AnalyserReply == \E r \in Replies : AnalyserAvec(Reponse(r))

SpecParse == InitParse /\ [][AnalyserReply]_vars

\* The greatest number of parts a style string is made of.
MaxStyleParts == 2

StyleParts ==
    {Encourageante, Stricte, Standard, <<" ">>,
     <<"e", "n", "c", "o", "u", "r", "a", "g", "e", "a", "n", "t", "e">>,
     <<"S", "t", "r", "i", "c", "t">>}

RECURSIVE StylesOf(_)
StylesOf(n) ==
    IF n = 0 THEN {<<>>}
    ELSE StylesOf(n - 1) \cup {s \o q : s \in StylesOf(n - 1), q \in StyleParts}

\* analyser_avec_gemini on any style string, with a paper that is empty (a
\* blank image) or not.
InitAnalyse ==
    /\ AtAnalyse
    /\ style \in StylesOf(MaxStyleParts)
    /\ \E f \in {Fichier(FALSE, <<>>, <<<<>>>>), Fichier(FALSE, <<>>, <<<<"a", "b", "\n">>>>)} :
           /\ fichier_eleve = f
           /\ texte_eleve = concat(f.parts)

SpecAnalyse == InitAnalyse /\ [][Analyser]_vars

\* creer_fiche_word on any ReportInfo whose fields are strings, empty or not.
InitReport ==
    /\ apiKey = TRUE
    /\ pc = "report"
    /\ form = TRUE
    /\ enseignant \in Enseignants
    /\ eleve \in Eleves
    /\ matiere \in Matieres
    /\ niveau \in Niveaux
    /\ style = Standard
    /\ type_doc = "DOCX"
    /\ fichier_ref = NoFile
    /\ fichier_eleve = NoFile
    /\ texte_ref = <<>>
    /\ texte_eleve = <<>>
    /\ prompt = <<>>
    /\ res = <<>>
    /\ exc = <<>>
    /\ commentaire \in {<<>>, <<"a", "b">>, Non_genere}
    /\ axes \in {<<>>, <<"c", "d">>}
    /\ points_forts = <<>>
    /\ note \in {<<>>, <<"1", "5">>, <<"0", "0">>}
    /\ docx_file = NoDocx
    /\ screen = <<>>
    /\ calls = NoCalls

SpecReport == InitReport /\ [][Rapport]_vars

\* ----------------------------------------------------------------------
\* Properties of the parser (SpecParse)
\* ----------------------------------------------------------------------

\* A reply has been received and parsed.
Parsed == pc = "display" /\ exc = <<>>

Fields == <<commentaire, axes, points_forts, note>>

Fallback(k) == IF k = 4 THEN <<"1", "0">> ELSE Non_genere

\* Where label k occurs in the reply.
Occ(k) == {i \in 1..Len(res) : StartsAt(res, Labels[k], i)}

Pos(k) == Min(Occ(k))

\* The first position after label k.
EndOf(k) == Pos(k) + Len(Labels[k])

AllSpace(a, b) == \A j \in a..b : IsSpace(res[j])

\* The colon that follows position p after optional whitespace, if any.
ColonAfter(p) == {c \in p..Len(res) : res[c] = ":" /\ AllSpace(p, c - 1)}

\* u without its leading and trailing whitespace.
Trimmed(u) ==
    LET N == {i \in 1..Len(u) : ~IsSpace(u[i])}
    IN  IF N = {} THEN <<>> ELSE SubSeq(u, Min(N), Max(N))

\* The run of digits that starts at position d.
DigitsFrom(d) ==
    SubSeq(res, d, Max({e \in d..Len(res) : \A j \in d..e : IsDigit(res[j])}))

\* The first digits of the places where the score label, optional
\* whitespace, a colon and optional whitespace are directly followed by a digit.
ScoreSites ==
    {d \in 1..Len(res) :
        /\ IsDigit(res[d])
        /\ \E i \in Occ(4) : \E c \in ColonAfter(i + Len(Labels[4])) :
               c < d /\ AllSpace(c + 1, d - 1)}

\* Each label occurs exactly once, in the order of the prompt.
EachOnceInOrder ==
    /\ \A k \in 1..4 : Cardinality(Occ(k)) = 1
    /\ \A k \in 1..3 : EndOf(k) <= Pos(k + 1)

\* Label k is followed by optional whitespace and a colon, and label k + 1
\* stands at the start of a line: after a newline and optional whitespace.
Delimited(k) ==
    \E c \in ColonAfter(EndOf(k)) : \E b \in {Pos(k + 1)} : \E e \in (c + 1)..(b - 1) :
        res[e] = "\n" /\ AllSpace(e + 1, b - 1)

\* The text between the colon of label k and label k + 1.
TextOf(k) == SubSeq(res, Min(ColonAfter(EndOf(k))) + 1, Pos(k + 1) - 1)

\* The text between label k, with the colon that follows it if one does, and
\* label k + 1.
AfterLabel(k) ==
    IF ColonAfter(EndOf(k)) # {} THEN TextOf(k)
    ELSE SubSeq(res, EndOf(k), Pos(k + 1) - 1)

\* C4 as claimed, for the three text fields: for every reply with the four
\* labels in the fixed order, each of the first three fields is the trimmed
\* text between its label and the next label, and does not take its fallback.
C4_AsClaimed ==
    (Parsed /\ EachOnceInOrder) =>
        \A k \in 1..3 : Fields[k] = Trimmed(AfterLabel(k)) /\ Fields[k] # Fallback(k)

\* C4 (amended): for every reply with each of the four labels exactly once, in
\* the fixed order, each of the first three fields whose label is followed by
\* optional whitespace and a colon, and whose next label stands at the start
\* of a line (after a newline and optional whitespace), is exactly the text
\* between that colon and the next label, without its leading and trailing
\* whitespace; and the score is the digits that follow the score label's
\* colon (whitespace apart) when a digit stands there.
C4_WellFormedParse ==
    (Parsed /\ EachOnceInOrder) =>
        /\ \A k \in 1..3 : Delimited(k) => Fields[k] = Trimmed(TextOf(k))
        /\ ScoreSites # {} => note = DigitsFrom(Min(ScoreSites))

\* C4: a reply in the format asked for, its comment surrounded by whitespace
\* and holding a newline, has been parsed into its four texts.
C4_Witness ==
    /\ Parsed
    /\ EachOnceInOrder
    /\ \A k \in 1..3 : Delimited(k)
    /\ commentaire = <<"a", "\n", "b">>
    /\ axes = <<"c", "d">>
    /\ points_forts = <<"e", "f">>
    /\ note = <<"1", "5">>

\* C10 as claimed: when the reply holds the score label, the score is the
\* first run of digits after the label, and "10" only when no digit follows
\* the label.
C10_AsClaimed ==
    (Parsed /\ Occ(4) # {}) =>
        LET Ds == {d \in EndOf(4)..Len(res) : IsDigit(res[d])}
        IN  IF Ds = {} THEN note = Fallback(4) ELSE note = DigitsFrom(Min(Ds))

\* C10 (amended): the score is the run of digits at the first place where the
\* score label, optional whitespace, a colon and optional whitespace are
\* directly followed by a digit; the fallback "10" is returned exactly when
\* the reply has no such place, also when digits follow the label further on.
C10_ScoreExtraction ==
    Parsed =>
        IF ScoreSites = {} THEN note = Fallback(4)
        ELSE note = DigitsFrom(Min(ScoreSites))

\* C10: the score was read at the second occurrence of the label, the first
\* being followed by text.
C10_Witness ==
    /\ Parsed
    /\ Cardinality(Occ(4)) = 2
    /\ note = <<"7">>

\* Label k is absent and each of the other three occurs once, in order.
OneMissing(k) ==
    /\ Occ(k) = {}
    /\ \A j \in (1..4) \ {k} : Cardinality(Occ(j)) = 1
    /\ \A i, j \in (1..4) \ {k} : i < j => EndOf(i) <= Pos(j)

\* Where label k would stand: after the label before it, before the next one.
Gap(k) ==
    (IF k = 1 THEN 1 ELSE EndOf(k - 1))..(IF k = 4 THEN Len(res) + 1 ELSE Pos(k + 1))

\* The reply with label k put in before position p.
WithLabel(k, p) == SubSeq(res, 1, p - 1) \o Labels[k] \o SubSeq(res, p, Len(res))

\* Each field of J is what it is in every reply that has label k put back.
Unaffected(J, k) ==
    \A p \in Gap(k) : \A x \in {extraire(WithLabel(k, p))} : \A j \in J : x[j] = Fields[j]

\* C3 as claimed: when exactly one label is absent, that field takes its
\* fallback and each of the other three is extracted as it would be if the
\* label were present.
C3_AsClaimed ==
    Parsed =>
        \A k \in 1..4 : OneMissing(k) =>
            /\ Fields[k] = Fallback(k)
            /\ Unaffected((1..4) \ {k}, k)

\* C3 (amended): when exactly one label is absent and the other three are
\* present in order, the field of the absent label takes its fallback, and so
\* does the field before it, whose text ends at the absent label; each of the
\* remaining fields is extracted exactly as it would be if the label were
\* present.
C3_Independence ==
    Parsed =>
        \A k \in 1..4 : OneMissing(k) =>
            /\ Fields[k] = Fallback(k)
            /\ k > 1 => Fields[k - 1] = Fallback(k - 1)
            /\ Unaffected((1..4) \ {k, k - 1}, k)

\* C3: a reply without the "Axes d'amélioration" label has been parsed: the
\* comment and the axes are at their fallback, the strengths and the score
\* are extracted.
C3_Witness ==
    /\ Parsed
    /\ OneMissing(2)
    /\ commentaire = Non_genere
    /\ axes = Non_genere
    /\ points_forts = <<"e", "f">>
    /\ note = <<"1", "5">>

\* ----------------------------------------------------------------------
\* Properties of analyser_avec_gemini (SpecAnalyse)
\* ----------------------------------------------------------------------

\* C2: whenever the model call, or reading its reply text, raises an error
\* with message m, analyser_avec_gemini returns to its caller, and returns
\* exactly ("Erreur IA : " + m, "", "", "00"), the paper's text empty or not.
C2_FailureAbsorbed ==
    exc # <<>> =>
        /\ pc = "display"
        /\ commentaire = Erreur_IA \o exc[1]
        /\ axes = <<>>
        /\ points_forts = <<>>
        /\ note = <<"0", "0">>

\* C2: reading the reply of the model raised, the paper being empty, and the
\* four values were returned.
C2_Witness ==
    /\ exc = <<<<"b", "l", "o", "c", "k", "e", "d">>>>
    /\ texte_eleve = <<>>
    /\ pc = "display"
    /\ note = <<"0", "0">>

\* kw is a substring of s.
Contains(s, kw) == \E i, j \in 1..Len(s) : SubSeq(s, i, j) = kw

\* The prompt of the run, were its instruction c.
PromptWith(c) == prompt_de(texte_ref, texte_eleve, matiere, niveau, c)

\* C8: a style string that contains "Encourageante" yields the supportive
\* instruction, also when it contains "Stricte" too; one that contains
\* "Stricte" only yields the rigorous instruction; every other string, the
\* empty one included, yields the neutral instruction.
C8_ToneMapping ==
    pc = "display" =>
        /\ Contains(style, Encourageante) => prompt = PromptWith(Sois_bienveillant)
        /\ (~Contains(style, Encourageante) /\ Contains(style, Stricte))
               => prompt = PromptWith(Sois_rigoureux)
        /\ (~Contains(style, Encourageante) /\ ~Contains(style, Stricte))
               => prompt = PromptWith(Sois_neutre)

\* C8: the prompt was built for a style string that holds "Stricte" and then
\* "Encourageante".
C8_Witness ==
    /\ pc = "display"
    /\ style = Stricte \o Encourageante
    /\ prompt = PromptWith(Sois_bienveillant)

\* ----------------------------------------------------------------------
\* Properties of creer_fiche_word (SpecReport)
\* ----------------------------------------------------------------------

\* The tables of the document.
Tables == SelectSeq(docx_file.blocks, LAMBDA b : b.kind = "table")

\* C9: the report has one table, of exactly six rows of two cells, in the
\* order Enseignant, Apprenant, Matière / Niveau, Note indicative, Commentaire
\* pédagogique, Axes d'amélioration, the label in column 0 and the value in
\* column 1; an empty field gives an empty cell, and the score and comment
\* cells hold the strings given.
C9_ReportTable ==
    docx_file.built =>
        /\ Len(Tables) = 1
        /\ Len(Tables[1].rows) = 6
        /\ \A i \in 1..6 : Len(Tables[1].rows[i]) = 2
        /\ Tables[1].rows[1] = <<Label_enseignant, enseignant>>
        /\ Tables[1].rows[2] = <<Label_apprenant, eleve>>
        /\ Tables[1].rows[3] =
               <<Label_matiere_niveau, matiere \o <<" ", "(">> \o niveau \o <<")">>>>
        /\ Tables[1].rows[4] = <<Label_note, note>>
        /\ Tables[1].rows[5] = <<Label_commentaire, commentaire>>
        /\ Tables[1].rows[6] = <<Label_axes, axes>>

\* C9: a report was built from a ReportInfo whose teacher, comment and axes
\* are empty strings.
C9_Witness ==
    /\ docx_file.built
    /\ enseignant = <<>>
    /\ commentaire = <<>>
    /\ axes = <<>>
    /\ note = <<"1", "5">>
    /\ Tables[1].rows[5] = <<Label_commentaire, <<>>>>

\* ----------------------------------------------------------------------
\* Properties of the script run (Spec, FairSpec)
\* ----------------------------------------------------------------------

\* The gate of line 198 fails.
GateFails == eleve = <<>> \/ matiere = <<>> \/ ~fichier_eleve.present

\* The positions of the elements of a kind on the screen.
Shown(kind) == {i \in 1..Len(screen) : screen[i].kind = kind}

\* C1: while the name, the subject or the paper is missing, no extractor and
\* no model call has run and no report is built; and a press of the button
\* then ends the run at once with exactly one validation error displayed,
\* a reference file present or not.
C1_PipelineGate ==
    /\ [](GateFails =>
            /\ pc \in {"start", "stopped", "idle"}
            /\ calls = NoCalls
            /\ ~docx_file.built
            /\ Cardinality(Shown("error")) <= 1)
    /\ [][(pc = "idle" /\ GateFails /\ UNCHANGED widgets) =>
            /\ pc' = "idle"
            /\ calls' = NoCalls
            /\ ~docx_file'.built
            /\ screen' = <<El("error", MsgChamps, <<>>)>>]_vars

\* C1: the button was pressed with a reference and a paper uploaded and no
\* subject: the run ended with the validation error.
C1_Witness ==
    /\ pc = "idle"
    /\ matiere = <<>>
    /\ fichier_ref.present
    /\ fichier_eleve.present
    /\ screen = <<El("error", MsgChamps, <<>>)>>
    /\ calls = NoCalls

\* The four result fields are displayed.
ResultsShown ==
    /\ \E i \in Shown("write") : screen[i].value = commentaire /\ screen[i - 1].kind = "info"
    /\ \E i \in Shown("write") : screen[i].value = axes /\ screen[i - 1].kind = "warning"
    /\ \E i \in Shown("write") :
           screen[i].value = points_forts /\ screen[i - 1].kind = "success"
    /\ \E i \in Shown("metric") : screen[i].value = note \o <<"/", "2", "0">>

\* The report is offered for download.
Offered == docx_file.built /\ Shown("download_button") # {}

\* The number of extractor calls of the run.
ExtractorCalls == calls.lire_docx + calls.lire_pdf + calls.lire_image

\* C5: every run that passes the gate goes on to display the four result
\* fields and to offer the report; an extractor that fails on the reference
\* or on the paper yields the empty string, the model is still called with
\* it, and a failed model call gives a report whose comment is the error text.
C5_NoStageAborts ==
    /\ [](pc \in {"analyse", "display", "report", "download"} =>
            /\ fichier_ref.corrupt => texte_ref = <<>>
            /\ fichier_eleve.corrupt => texte_eleve = <<>>)
    /\ [](pc \in {"display", "report", "download"} =>
            /\ calls.generate_content >= 1
            /\ prompt = PromptWith(consigne_style(style)))
    /\ []((docx_file.built /\ exc # <<>>) =>
            Tables[1].rows[5] = <<Label_commentaire, Erreur_IA \o exc[1]>>)
    /\ (pc = "extract_ref") ~> (pc = "idle" /\ ResultsShown /\ Offered)

\* C5: a run whose reference and paper were both unreadable and whose model
\* call failed has displayed its results and offers the report.
C5_Witness ==
    /\ pc = "idle"
    /\ fichier_ref.corrupt
    /\ fichier_eleve.corrupt
    /\ exc # <<>>
    /\ texte_eleve = <<>>
    /\ ResultsShown
    /\ Offered

\* C6: in a run that passes the gate the model is called exactly once: not
\* before the texts are extracted, before any result is displayed or the
\* report built, and never a second time, also when the call fails.
C6_ExactlyOnce ==
    /\ calls.generate_content \in {0, 1}
    /\ pc \in {"extract_ref", "extract_eleve", "analyse"} =>
           /\ calls.generate_content = 0
           /\ Shown("write") = {} /\ Shown("metric") = {}
           /\ ~docx_file.built
    /\ pc \in {"display", "report", "download"} => calls.generate_content = 1
    /\ (Shown("write") # {} \/ Shown("metric") # {} \/ docx_file.built) =>
           calls.generate_content = 1
    /\ calls.generate_content = 1 =>
           ExtractorCalls = (IF fichier_ref.present THEN 2 ELSE 1)

\* C6: a run whose model call failed is over, with one call made.
C6_Witness ==
    /\ pc = "idle"
    /\ exc # <<>>
    /\ Offered
    /\ calls.generate_content = 1

\* C7: when the API key is absent the script shows the error and stops: no
\* form control is rendered, and no extraction, no model call and no report
\* ever happens.
C7_CredentialGate ==
    ~apiKey =>
        /\ ~form
        /\ pc \in {"start", "stopped"}
        /\ pc = "stopped" => screen = <<El("error", MsgCle, <<>>)>>
        /\ calls = NoCalls
        /\ ~docx_file.built

\* C7: the script has started without its API key.
C7_Witness == ~apiKey /\ pc = "stopped" /\ Shown("error") = {1}

====
